---- MODULE Spec2Model ----
(***************************************************************************)
(* A model of ceterach's Revision (src/ceterach/revision.py): a lazily     *)
(* loaded, cached view of one revision of a wiki page.                     *)
(*                                                                         *)
(* A Python dict is a function from its possible keys to an "option": the  *)
(* empty tuple when the key is missing, a one-element tuple holding the    *)
(* value when it is present.  An object's __dict__ is such a dict.         *)
(***************************************************************************)
EXTENDS Integers, Sequences, FiniteSets, TLC

VARIABLES objs, queries, calls, edits, ret, auto, threads

vars == <<objs, queries, calls, edits, ret, auto, threads>>

\* ------------------------------------------------------------------ bounds

\* Queries one Revision object may issue in a run.
MaxQueries == 2

\* Mutating api.call requests in a run.
MaxCalls == 1

\* page.edit calls in a run.
MaxEdits == 1

\* ------------------------------------------------------------ dict model

Absent == <<>>

Some(v) == <<v>>

Has(d, k) == d[k] # Absent

Val(d, k) == d[k][1]

\* The one element of a singleton set.  { F(x) : x \in {e} } evaluates e
\* once and names its value x, as a local variable does.
Only(S) == CHOOSE x \in S : TRUE

\* ------------------------------------------------------------ value sets

Apis == {"api1", "api2"}

RevIds == {5, 6}

Objs == {"self", "other"}

\* The keys of one entry of a response's "revisions" list.
EntryKeys ==
    {"revid", "comment", "timestamp", "user", "minor", "rollbacktoken", "parentid", "*"}

\* What the server sends under each key; parent is the parentid, 0 for a
\* page's first revision.  revid is the id of the revision the record
\* describes, here never the id of a Revision object: __load does not read it.
EntryVal(k, parent) ==
    CASE k = "revid" -> 9
      [] k = "comment" -> "fix typo"
      [] k = "timestamp" -> <<"iso8601", 2013, 1, 2, 12, 30, 0>>
      [] k = "user" -> "Bar"
      [] k = "minor" -> ""
      [] k = "rollbacktoken" -> "TOK"
      [] k = "parentid" -> parent
      [] k = "*" -> "text"

EntryOf(miss, parent) ==
    [k \in EntryKeys |-> IF k \in miss THEN Absent ELSE Some(EntryVal(k, parent))]

\* A response record lacking the keys in miss.  "revisions[0]" in miss makes
\* the revisions list empty.
ResOf(miss, parent) ==
    [pageid |-> IF "pageid" \in miss THEN Absent ELSE Some(7),
     revisions |-> IF "revisions" \in miss THEN Absent
                   ELSE IF "revisions[0]" \in miss THEN Some(<<>>)
                   ELSE Some(<<EntryOf(miss, parent)>>),
     badrevids |-> IF "badrevids" \in miss THEN Absent ELSE Some(TRUE)]

\* The empty dict {}.
EmptyRes == ResOf({"pageid", "revisions", "badrevids"}, 0)

\* What the query API answers for a revision id that matches nothing: a
\* record with neither pageid nor revisions.
BadRevRes == ResOf({"pageid", "revisions"}, 0)

\* The shapes of a response that describes a revision: the optional keys
\* present or not, or one core key missing.
OptionalKeys == {"minor", "rollbacktoken", "*"}

CoreGaps == {"revisions", "revisions[0]", "comment", "timestamp", "user", "parentid"}

Shapes == (SUBSET OptionalKeys) \cup {{g} : g \in CoreGaps}

\* The responses: each shape for a revision whose parent is revision 4, the
\* complete one for a first revision, the no-match record and {}.
Responses ==
    {ResOf(s \cup {"badrevids"}, 4) : s \in Shapes}
        \cup {ResOf({"badrevids"}, 0), BadRevRes, EmptyRes}

\* Python's None, as the res argument of load_attributes.
None == [none |-> TRUE]

\* bool(res) of a response dict: a dict is true when it has a key.
Truthy(res) == res # None /\ \E k \in DOMAIN res : res[k] # Absent

\* What next(api.iterator(...)) does: yields a record, finds the sequence
\* empty, or fails in the transport.
Answers ==
    {[kind |-> "record", res |-> r] : r \in Responses}
        \cup {[kind |-> "StopIteration", res |-> EmptyRes],
              [kind |-> "TransportError", res |-> EmptyRes]}

\* ------------------------------------------------------- the Revision object

\* The attributes a Revision's __dict__ can hold.
Attrs ==
    {"_api", "_revid", "_page", "_summary", "_timestamp", "_user", "_is_minor",
     "_rvtoken", "_prev_revision", "_content", "_is_deleted"}

\* Revision.__init__: only the identity is set.
__init__(api, revid) ==
    [k \in Attrs |-> IF k = "_api" THEN Some(api)
                     ELSE IF k = "_revid" THEN Some(revid)
                     ELSE Absent]

Revision(api, revid) == __init__(api, revid)

\* An object that is not a Revision: it has no _api and no revid.
PlainObject == [k \in Attrs |-> Absent]

\* Every Revision has the two attributes __init__ sets.
IsRevision(d) == Has(d, "_api") /\ Has(d, "_revid")

\* api.page(pageid) and api.user(name): cheap references to collaborators.
ApiPage(api, pageid) == [cls |-> "Page", api |-> api, ident |-> pageid]

ApiUser(api, name) == [cls |-> "User", api |-> api, ident |-> name]

\* page.title and user.name, as the collaborators resolve them.
PageTitle(page) == <<"title of", page.ident>>

UserName(user) == user.ident

\* utils.isostrptime: an ISO-8601 string to a datetime.
isostrptime(s) ==
    [year |-> s[2], month |-> s[3], day |-> s[4],
     hour |-> s[5], minute |-> s[6], second |-> s[7]]

\* An exception in flight; name "" when there is none.
NoExc == [name |-> "", arg |-> <<>>]

Exc(name, arg) == [name |-> name, arg |-> <<arg>>]

\* A load that, when it fails, marks the object deleted.
LoadResultCachingFailure(d, exc, queried) ==
    [d |-> IF exc.name # "" THEN [d EXCEPT !["_is_deleted"] = Some(TRUE)] ELSE d,
     exc |-> exc, queried |-> queried]

\* The outcome of __load: the object's __dict__ afterwards, the exception
\* that ended it, and whether the transport was queried.
LoadResult(d, exc, queried) == [d |-> d, exc |-> exc, queried |-> queried]

\* self._page = self._api.page(res['pageid'])
StorePage(d, res) ==
    [d EXCEPT !["_page"] = Some(ApiPage(Val(d, "_api"), Val(res, "pageid")))]

\* A load that reads the comment and does not cache it.
StoreSummaryDropped(d, e) == d

\* A load that also takes the revision id from the response.
StoreSummaryAndRevid(d, e) ==
    [d EXCEPT !["_summary"] = Some(Val(e, "comment")), !["_revid"] = e["revid"]]

\* self._summary = res['comment']
StoreSummary(d, e) == [d EXCEPT !["_summary"] = Some(Val(e, "comment"))]

\* self._timestamp = isostrptime(res['timestamp'])
StoreTimestamp(d, e) ==
    [d EXCEPT !["_timestamp"] = Some(isostrptime(Val(e, "timestamp")))]

\* self._user = self._api.user(res['user'])
StoreUser(d, e) ==
    [d EXCEPT !["_user"] = Some(ApiUser(Val(d, "_api"), Val(e, "user")))]

\* self._is_minor = 'minor' in res
StoreIsMinor(d, e) == [d EXCEPT !["_is_minor"] = Some(Has(e, "minor"))]

\* try: self._rvtoken = res['rollbacktoken'] / except KeyError: pass
StoreRvtoken(d, e) ==
    IF Has(e, "rollbacktoken")
    THEN [d EXCEPT !["_rvtoken"] = Some(Val(e, "rollbacktoken"))]
    ELSE d

\* A load with no test of parentid: a Revision whatever the id.
StorePrevRevisionAlways(d, e) ==
    [d EXCEPT !["_prev_revision"] = Some(Revision(Val(d, "_api"), Val(e, "parentid")))]

\* if res['parentid']: a new unloaded Revision, else None
StorePrevRevision(d, e) ==
    IF Val(e, "parentid") # 0
    THEN [d EXCEPT !["_prev_revision"] =
              Some(Revision(Val(d, "_api"), Val(e, "parentid")))]
    ELSE [d EXCEPT !["_prev_revision"] = Some(None)]

\* try: self._content = res["*"] / except KeyError: deleted / else: not
StoreContent(d, e) ==
    IF Has(e, "*")
    THEN [d EXCEPT !["_content"] = Some(Val(e, "*")), !["_is_deleted"] = Some(FALSE)]
    ELSE [d EXCEPT !["_is_deleted"] = Some(TRUE)]

\* The part of __load that decodes the first revisions entry e.
LoadEntry(d, e, q) ==
    IF ~Has(e, "comment") THEN LoadResult(d, Exc("KeyError", "comment"), q)
    ELSE Only({
    IF ~Has(e, "timestamp") THEN LoadResult(d2, Exc("KeyError", "timestamp"), q)
    ELSE Only({
    IF ~Has(e, "user") THEN LoadResult(d3, Exc("KeyError", "user"), q)
    ELSE Only({
    IF ~Has(e, "parentid") THEN LoadResult(d6, Exc("KeyError", "parentid"), q)
    ELSE Only({LoadResult(StoreContent(d7, e), NoExc, q) : d7 \in {StorePrevRevision(d6, e)}})
    : d6 \in {StoreRvtoken(d5, e) : d5 \in {StoreIsMinor(d4, e) : d4 \in {StoreUser(d3, e)}}}})
    : d3 \in {StoreTimestamp(d2, e)}})
    : d2 \in {StoreSummary(d, e)}})

\* Whether __load queries the transport: res = res or next(...)
NeedsQuery(res) == ~Truthy(res)

\* Revision.__load(res), the transport answering ans if it is asked.
__load(d, res, ans) ==
    LET q == NeedsQuery(res) IN
    IF q /\ ans.kind # "record" THEN LoadResult(d, Exc(ans.kind, "iterator"), q)
    ELSE LET r == IF q THEN ans.res ELSE res IN
    IF ~Has(r, "pageid") THEN LoadResult(d, Exc("KeyError", "pageid"), q)
    ELSE Only({
    IF ~Has(r, "revisions") THEN LoadResult(d1, Exc("KeyError", "revisions"), q)
    ELSE IF Len(Val(r, "revisions")) = 0 THEN LoadResult(d1, Exc("IndexError", "revisions"), q)
    ELSE Only({LoadEntry(d1, e, q) : e \in {Val(r, "revisions")[1]}})
    : d1 \in {StorePage(d, r)}})

\* Revision.load_attributes(res=None)
load_attributes(d, res, ans) == __load(d, res, ans)

\* ------------------------------------------------------------- accessors

\* What a call hands back to its caller: a value, or an exception.
Return(v) == [kind |-> "return", exc |-> "", val |-> <<v>>]

Raise(name, arg) == [kind |-> "raise", exc |-> name, val |-> <<arg>>]

\* The outcome of an accessor: the __dict__ afterwards, what the caller
\* gets, the queries issued, and the exception (if any) that ended the load.
AccessResult(d, out, nq, loadexc) == [d |-> d, out |-> out, nq |-> nq, loadexc |-> loadexc]

\* utils.blah_decorate: return the cached attribute; when it is not cached,
\* call load_attributes() and look again; when it is still not there, raise
\* err with msg formatted with the attribute named idattr.  What the load
\* raises is not caught.
blah_decorate(d, attr, idattr, err, ans) ==
    IF Has(d, attr) THEN AccessResult(d, Return(Val(d, attr)), 0, "")
    ELSE Only({
        LET n == IF l.queried THEN 1 ELSE 0
        IN IF l.exc.name # "" THEN AccessResult(l.d, Raise(l.exc.name, l.exc.arg[1]), n, l.exc.name)
           ELSE IF Has(l.d, attr) THEN AccessResult(l.d, Return(Val(l.d, attr)), n, "")
           ELSE AccessResult(l.d, Raise(err, Val(l.d, idattr)), n, "")
        : l \in {load_attributes(d, None, ans)}})

\* decorate: the accessor of attr, failing with NonexistentRevisionError
\* "Revision {revid!r} does not exist".
decorate(d, attr, ans) == blah_decorate(d, attr, "_revid", "NonexistentRevisionError", ans)

\* The properties of Revision and the attribute each one reads.
Props ==
    {"revid", "rvtoken", "page", "summary", "timestamp", "user", "is_minor",
     "prev_revision", "content", "is_deleted"}

PropAttr(p) ==
    CASE p = "revid" -> "_revid"
      [] p = "rvtoken" -> "_rvtoken"
      [] p = "page" -> "_page"
      [] p = "summary" -> "_summary"
      [] p = "timestamp" -> "_timestamp"
      [] p = "user" -> "_user"
      [] p = "is_minor" -> "_is_minor"
      [] p = "prev_revision" -> "_prev_revision"
      [] p = "content" -> "_content"
      [] p = "is_deleted" -> "_is_deleted"

\* Reading property p of the object with __dict__ d.
GetProp(d, p, ans) == decorate(d, PropAttr(p), ans)

\* No answer: the transport is not asked.
NoAnswer == [kind |-> "none", res |-> EmptyRes]

\* The answers to draw from for an access to attr: the transport's
\* answers A, when the access will ask it.
AnswersFor(d, attr, A) == IF Has(d, attr) THEN {NoAnswer} ELSE A

\* Whether an answer holds a revision matching the queried id.
FoundRevision(ans) ==
    /\ ans.kind = "record"
    /\ Has(ans.res, "revisions")
    /\ Len(Val(ans.res, "revisions")) > 0

\* How the answer to a call's query reads: "" when none was issued.
MatchOf(nq, ans) ==
    IF nq = 0 THEN ""
    ELSE IF ans.kind = "TransportError" THEN "error"
    ELSE IF FoundRevision(ans) THEN "found"
    ELSE "nomatch"

\* ------------------------------------------------------ equality

\* The outcome of a comparison: what the caller gets, both __dict__s
\* afterwards and the queries each object issued.
CmpResult(out, self, other, nqs, nqo) ==
    [out |-> out, self |-> self, other |-> other, nqs |-> nqs, nqo |-> nqo]

\* The two reads of revid a comparison makes, other's first: a value when
\* both return, the exception of the first that raises otherwise.
CmpRevids(self, other, as, ao, differ) ==
    Only({
    IF ro.out.kind = "raise" THEN CmpResult(ro.out, self, ro.d, 0, ro.nq)
    ELSE IF rs.out.kind = "raise" THEN CmpResult(rs.out, rs.d, ro.d, rs.nq, ro.nq)
    ELSE CmpResult(Return((ro.out.val = rs.out.val) # differ), rs.d, ro.d, rs.nq, ro.nq)
    : ro \in {GetProp(other, "revid", ao)}, rs \in {GetProp(self, "revid", as)}})

\* An equality that compares the revision ids only.
EqRevidOnly(self, other, as, ao) == CmpRevids(self, other, as, ao, FALSE)

\* Revision.__eq__: getattr(other, '_api', None) == self._api and
\* getattr(other, 'revid', None) == self.revid.  The missing option is
\* getattr's None.
__eq__(self, other, as, ao) ==
    IF other["_api"] = self["_api"]
    THEN CmpRevids(self, other, as, ao, FALSE)
    ELSE CmpResult(Return(FALSE), self, other, 0, 0)

\* An inequality with "and" in place of "or".
NeAnd(self, other, as, ao) ==
    IF other["_api"] # self["_api"]
    THEN CmpRevids(self, other, as, ao, TRUE)
    ELSE CmpResult(Return(FALSE), self, other, 0, 0)

\* Revision.__ne__: getattr(other, '_api', None) != self._api or
\* getattr(other, 'revid', None) != self.revid
__ne__(self, other, as, ao) ==
    IF other["_api"] # self["_api"]
    THEN CmpResult(Return(TRUE), self, other, 0, 0)
    ELSE CmpRevids(self, other, as, ao, TRUE)

\* ------------------------------------------------------ rollback

\* The summary argument: None is the missing option.
SummaryArgs == {Absent, Some(""), Some("undo")}

ParamKeys == {"title", "user", "token", "action", "summary", "markbot"}

\* The params with "if summary:" in place of "if summary is not None:".
RollbackParamsTruthy(title, user, token, summary, bot) ==
    [k \in ParamKeys |->
        CASE k = "title" -> Some(title)
          [] k = "user" -> Some(user)
          [] k = "token" -> Some(token)
          [] k = "action" -> Some("rollback")
          [] k = "summary" -> IF summary # Absent /\ summary # Some("") THEN Some(summary[1]) ELSE Absent
          [] k = "markbot" -> IF bot THEN Some(1) ELSE Absent]

\* The params dict rollback builds (lines 124-136).
RollbackParams(title, user, token, summary, bot) ==
    [k \in ParamKeys |->
        CASE k = "title" -> Some(title)
          [] k = "user" -> Some(user)
          [] k = "token" -> Some(token)
          [] k = "action" -> Some("rollback")
          [] k = "summary" -> IF summary # Absent THEN Some(summary[1]) ELSE Absent
          [] k = "markbot" -> IF bot THEN Some(1) ELSE Absent]

\* What api.call(params) does: returns the server's result, or fails.
CallResults == {Return("Success"), Raise("APIError", "call")}

\* The outcome of rollback: the __dict__ afterwards, what the caller gets,
\* the queries issued, and the mutating call, if one was made: its params
\* and what api.call did.
RollbackResult(d, out, nq, call) == [d |-> d, out |-> out, nq |-> nq, call |-> call]

\* try: params['token'] = self.rvtoken / except AttributeError: raise
\* PermissionsError; then the optional params and the call.
RollbackCall(d, nq, title, user, summary, bot, cr) ==
    Only({
    IF r4.out.kind = "raise" /\ r4.out.exc = "AttributeError"
    THEN RollbackResult(r4.d, Raise("PermissionsError", "You do not have the rollback permission"),
                        nq + r4.nq, Absent)
    ELSE IF r4.out.kind = "raise" THEN RollbackResult(r4.d, r4.out, nq + r4.nq, Absent)
    ELSE RollbackResult(r4.d, cr, nq,
             Some([params |-> RollbackParams(title, user, r4.out.val[1], summary, bot),
                   result |-> cr]))
    : r4 \in {GetProp(d, "rvtoken", NoAnswer)}})

\* Revision.rollback(summary, bot): the params literal reads self.page.title,
\* self.user.name and self.rvtoken in that order, each through its accessor.
rollback(d, summary, bot, a1, a2, a3, cr) ==
    Only({
    IF r1.out.kind = "raise" THEN RollbackResult(r1.d, r1.out, r1.nq, Absent)
    ELSE Only({
    IF r2.out.kind = "raise" THEN RollbackResult(r2.d, r2.out, r1.nq + r2.nq, Absent)
    ELSE Only({
    IF r3.out.kind = "raise" THEN RollbackResult(r3.d, r3.out, r1.nq + r2.nq + r3.nq, Absent)
    ELSE RollbackCall(r3.d, r1.nq + r2.nq + r3.nq, PageTitle(r1.out.val[1]),
                      UserName(r2.out.val[1]), summary, bot, cr)
    : r3 \in {GetProp(r2.d, "rvtoken", a3)}})
    : r2 \in {GetProp(r1.d, "user", a2)}})
    : r1 \in {GetProp(d, "page", a1)}})

\* The answers rollback's second and third accessor may need, given the
\* earlier ones.
RollbackAnswers2(d, a1, A) ==
    Only({IF r1.out.kind = "raise" THEN {NoAnswer} ELSE AnswersFor(r1.d, "_user", A)
          : r1 \in {GetProp(d, "page", a1)}})

RollbackAnswers3(d, a1, a2, A) ==
    Only({
    IF r1.out.kind = "raise" THEN {NoAnswer}
    ELSE Only({IF r2.out.kind = "raise" THEN {NoAnswer} ELSE AnswersFor(r2.d, "_rvtoken", A)
               : r2 \in {GetProp(r1.d, "user", a2)}})
    : r1 \in {GetProp(d, "page", a1)}})

\* The arguments and call results to draw from: rollback reads summary and
\* bot only once the three accessors have returned (lines 133-137).
RollbackArgs(d, a1, a2, a3) ==
    IF rollback(d, Absent, FALSE, a1, a2, a3, Return("Success")).call = Absent
    THEN {<<Absent, FALSE, Return("Success")>>}
    ELSE SummaryArgs \X BOOLEAN \X CallResults

\* ------------------------------------------------------ restore

\* The arguments of restore: the defaults, and each one set otherwise.
RestoreArgs == {<<"", FALSE, TRUE, FALSE>>, <<"revert", TRUE, FALSE, TRUE>>}

\* What page.edit does: returns the server's result, or fails.
EditResults == {Return("Success"), Raise("EditConflictError", "edit")}

\* The arguments with bot and minor in each other's place.
EditArgsSwapped(content, summary, minor, bot, force) == <<content, summary, bot, minor, force>>

\* The arguments restore hands to page.edit (line 110).
EditArgs(content, summary, minor, bot, force) == <<content, summary, minor, bot, force>>

\* The outcome of restore: the __dict__ afterwards, what the caller gets,
\* the queries issued, and the page.edit call, if one was made: the page,
\* the arguments and what page.edit did.
RestoreResult(d, out, nq, edit) == [d |-> d, out |-> out, nq |-> nq, edit |-> edit]

\* Revision.restore(summary, minor, bot, force): self.page is read first,
\* then self.content, each through its accessor; then the one edit.
restore(d, summary, minor, bot, force, a1, a2, er) ==
    Only({
    IF r1.out.kind = "raise" THEN RestoreResult(r1.d, r1.out, r1.nq, Absent)
    ELSE Only({
    IF r2.out.kind = "raise" THEN RestoreResult(r2.d, r2.out, r1.nq + r2.nq, Absent)
    ELSE RestoreResult(r2.d, er, r1.nq + r2.nq,
             Some([page |-> r1.out.val[1],
                   args |-> EditArgs(r2.out.val[1], summary, minor, bot, force),
                   result |-> er]))
    : r2 \in {GetProp(r1.d, "content", a2)}})
    : r1 \in {GetProp(d, "page", a1)}})

\* The answers restore's second accessor may need, given the first.
RestoreAnswers2(d, a1, A) ==
    Only({IF r1.out.kind = "raise" THEN {NoAnswer} ELSE AnswersFor(r1.d, "_content", A)
          : r1 \in {GetProp(d, "page", a1)}})

\* The arguments and edit results to draw from: they matter only once both
\* accessors have returned.
RestoreArgsFor(d, a1, a2) ==
    IF restore(d, "", FALSE, TRUE, FALSE, a1, a2, Return("Success")).edit = Absent
    THEN {<<<<"", FALSE, TRUE, FALSE>>, Return("Success")>>}
    ELSE RestoreArgs \X EditResults

\* ------------------------------------------------------------------ state
\*
\* objs     each Revision object's __dict__
\* queries  the queries each object has sent through api.iterator
\* calls    the number of api.call requests made
\* edits    the number of page.edit calls made
\* ret      the last call a caller made and what it got back
\* auto     whether the object has so far only been read through its
\*          accessors, with no load ending in an exception
\* threads  where each of the callers sharing the object self stands in its
\*          accessor call, and the response its __load holds

TypeOK ==
    /\ DOMAIN objs = Objs
    /\ \A o \in Objs : DOMAIN objs[o] = Attrs
    /\ queries \in [Objs -> 0 .. MaxQueries]
    /\ calls \in 0 .. MaxCalls
    /\ edits \in 0 .. MaxEdits
    /\ auto \in [Objs -> BOOLEAN]

\* The record of a call: its operation, receiver and arguments, what the
\* caller got, the queries it sent, how the answer read, how the load it
\* ran ended ("" when it ran none, else "ok" or "raised"), and the api.call
\* request or page.edit call it made, if any.
\* The callers that may share one Revision.
Threads == {"t1", "t2"}

\* A caller that has not called yet.
Idle == [pc |-> "idle", attr |-> "", res |-> None, out |-> [kind |-> "", exc |-> "", val |-> <<>>]]

Called(op, o, arg, out, nq, match, load, call) ==
    [op |-> op, o |-> o, arg |-> arg, out |-> out, nq |-> nq, match |-> match,
     load |-> load, call |-> call]

LoadEnd(nq, excname) == IF excname # "" THEN "raised" ELSE IF nq > 0 THEN "ok" ELSE ""

InitWith(ids) ==
    /\ objs \in {[o \in Objs |-> Revision(f[o][1], f[o][2])] : f \in [Objs -> ids]}
    /\ queries = [o \in Objs |-> 0]
    /\ calls = 0
    /\ edits = 0
    /\ ret = Called("init", "self", <<>>, Return(None), 0, "", "", Absent)
    /\ auto = [o \in Objs |-> TRUE]
    /\ threads = [t \in Threads |-> Idle]

\* Reading property p of object o.
Get(o, p, ans) ==
    \E r \in {GetProp(objs[o], p, ans)} :
    /\ queries[o] + r.nq <= MaxQueries
    /\ objs' = [objs EXCEPT ![o] = r.d]
    /\ queries' = [queries EXCEPT ![o] = @ + r.nq]
    /\ ret' = Called("get", o, <<p>>, r.out, r.nq, MatchOf(r.nq, ans), LoadEnd(r.nq, r.loadexc), Absent)
    /\ auto' = [auto EXCEPT ![o] = @ /\ r.loadexc = ""]
    /\ UNCHANGED <<calls, edits, threads>>

\* o.load_attributes(res), called by the caller.
LoadAttributes(o, res, ans) ==
    \E l \in {load_attributes(objs[o], res, ans)} :
    LET n == IF l.queried THEN 1 ELSE 0
    IN /\ queries[o] + n <= MaxQueries
       /\ objs' = [objs EXCEPT ![o] = l.d]
       /\ queries' = [queries EXCEPT ![o] = @ + n]
       /\ ret' = Called("load", o, <<IF res = None THEN "None" ELSE "res">>,
                        IF l.exc.name # "" THEN Raise(l.exc.name, l.exc.arg[1]) ELSE Return(None),
                        n, MatchOf(n, ans), IF l.exc.name # "" THEN "raised" ELSE "ok", Absent)
       /\ auto' = [auto EXCEPT ![o] = FALSE]
       /\ UNCHANGED <<calls, edits, threads>>

\* o.rollback(summary, bot)
Rollback(o, summary, bot, a1, a2, a3, cr) ==
    \E r \in {rollback(objs[o], summary, bot, a1, a2, a3, cr)} :
    LET n == IF r.call # Absent THEN 1 ELSE 0
    IN /\ queries[o] + r.nq <= MaxQueries
       /\ calls + n <= MaxCalls
       /\ objs' = [objs EXCEPT ![o] = r.d]
       /\ queries' = [queries EXCEPT ![o] = @ + r.nq]
       /\ calls' = calls + n
       /\ ret' = Called("rollback", o, <<summary, bot>>, r.out, r.nq, "", "", r.call)
       /\ auto' = [auto EXCEPT ![o] = FALSE]
       /\ UNCHANGED <<edits, threads>>

\* o.restore(summary, minor, bot, force)
Restore(o, args, a1, a2, er) ==
    \E r \in {restore(objs[o], args[1], args[2], args[3], args[4], a1, a2, er)} :
    LET n == IF r.edit # Absent THEN 1 ELSE 0
    IN /\ queries[o] + r.nq <= MaxQueries
       /\ edits + n <= MaxEdits
       /\ objs' = [objs EXCEPT ![o] = r.d]
       /\ queries' = [queries EXCEPT ![o] = @ + r.nq]
       /\ edits' = edits + n
       /\ ret' = Called("restore", o, args, r.out, r.nq, "", "", r.edit)
       /\ auto' = [auto EXCEPT ![o] = FALSE]
       /\ UNCHANGED <<calls, threads>>

\* a == b and a != b
Compare(op, a, b, c) ==
    /\ queries[a] + c.nqs <= MaxQueries
    /\ queries[b] + c.nqo <= MaxQueries
    /\ objs' = [o \in Objs |-> IF o = a THEN c.self ELSE IF o = b THEN c.other ELSE objs[o]]
    /\ queries' = [o \in Objs |-> IF o = a THEN queries[o] + c.nqs
                                  ELSE IF o = b THEN queries[o] + c.nqo ELSE queries[o]]
    /\ ret' = Called(op, a, <<b>>, c.out, c.nqs + c.nqo, "", "", Absent)
    /\ UNCHANGED <<calls, edits, auto, threads>>

Eq(a, b) == \E c \in {__eq__(objs[a], objs[b], NoAnswer, NoAnswer)} : Compare("eq", a, b, c)

Ne(a, b) == \E c \in {__ne__(objs[a], objs[b], NoAnswer, NoAnswer)} : Compare("ne", a, b, c)

\* Every operation on the objects os, responses drawn from R and the
\* transport's answers from A.
NextOn(os, R, A) ==
    \/ \E o \in os, p \in Props :
         \E ans \in AnswersFor(objs[o], PropAttr(p), A) : Get(o, p, ans)
    \/ \E o \in os, res \in R \cup {None} :
         \E ans \in IF NeedsQuery(res) THEN A ELSE {NoAnswer} : LoadAttributes(o, res, ans)
    \/ \E o \in os :
         \E a1 \in AnswersFor(objs[o], "_page", A) :
           \E a2 \in RollbackAnswers2(objs[o], a1, A) :
             \E a3 \in RollbackAnswers3(objs[o], a1, a2, A) :
               \E arg \in RollbackArgs(objs[o], a1, a2, a3) :
                 Rollback(o, arg[1], arg[2], a1, a2, a3, arg[3])
    \/ \E o \in os :
         \E a1 \in AnswersFor(objs[o], "_page", A) :
           \E a2 \in RestoreAnswers2(objs[o], a1, A) :
             \E arg \in RestoreArgsFor(objs[o], a1, a2) :
               Restore(o, arg[1], a1, a2, arg[2])
    \/ \E a \in os, b \in Objs : Eq(a, b)
    \/ \E a \in os, b \in Objs : Ne(a, b)

\* One caller working on the object self; other is a second Revision that
\* is only compared with.
Init == InitWith({<<"api1", 5>>})

Next == NextOn({"self"}, Responses, Answers)

Spec == Init /\ [][Next]_vars

\* Two objects, other a Revision of any identity or no Revision at all;
\* each Revision is loaded, reloaded or left half loaded, and the Revisions
\* are compared with both.
PairResponses ==
    {ResOf({"badrevids"}, 4), ResOf({"badrevids", "rollbacktoken", "*"}, 4),
     ResOf({"badrevids", "revisions"}, 4)}

PairAnswers ==
    {[kind |-> "record", res |-> ResOf({"badrevids"}, 4)],
     [kind |-> "TransportError", res |-> EmptyRes]}

PairOthers == {Revision(a, r) : a \in Apis, r \in RevIds} \cup {PlainObject}

InitPair ==
    /\ objs \in {[o \in Objs |-> IF o = "self" THEN Revision("api1", 5) ELSE x] : x \in PairOthers}
    /\ queries = [o \in Objs |-> 0]
    /\ calls = 0
    /\ edits = 0
    /\ ret = Called("init", "self", <<>>, Return(None), 0, "", "", Absent)
    /\ auto = [o \in Objs |-> TRUE]
    /\ threads = [t \in Threads |-> Idle]

\* The objects that are Revisions: the receivers of every call.
Revisions == {o \in Objs : IsRevision(objs[o])}

NextPair ==
    \/ \E o \in Revisions :
         \E ans \in AnswersFor(objs[o], "_page", PairAnswers) : Get(o, "page", ans)
    \/ \E o \in Revisions, res \in PairResponses \cup {None} :
         \E ans \in IF NeedsQuery(res) THEN PairAnswers ELSE {NoAnswer} : LoadAttributes(o, res, ans)
    \/ \E a \in Revisions, b \in Objs : Eq(a, b)
    \/ \E a \in Revisions, b \in Objs : Ne(a, b)

SpecPair == InitPair /\ [][NextPair]_vars

\* The caller keeps what a.prev_revision returns: b = a.prev_revision.  When
\* it is a Revision, b names that new object, which has sent no query.
TakePrev(a, b, ans) ==
    \E r \in {GetProp(objs[a], "prev_revision", ans)} :
    LET got == r.out.kind = "return" /\ r.out.val[1] # None
    IN /\ queries[a] + r.nq <= MaxQueries
       /\ objs' = [o \in Objs |-> IF o = b /\ got THEN r.out.val[1]
                                    ELSE IF o = a THEN r.d ELSE objs[o]]
       /\ queries' = [o \in Objs |-> IF o = b /\ got THEN 0
                                       ELSE IF o = a THEN queries[o] + r.nq ELSE queries[o]]
       /\ ret' = Called("prev", a, <<b>>, r.out, r.nq, MatchOf(r.nq, ans),
                        LoadEnd(r.nq, r.loadexc), Absent)
       /\ auto' = [o \in Objs |-> IF o = b /\ got THEN TRUE
                                    ELSE IF o = a THEN auto[o] /\ r.loadexc = "" ELSE auto[o]]
       /\ UNCHANGED <<calls, edits, threads>>

\* A Revision and the one its prev_revision returns: self is loaded and
\* read, other is bound to self.prev_revision and read in its turn.
ChainResponses == {ResOf({"badrevids"}, 4), ResOf({"badrevids", "rollbacktoken"}, 0)}

ChainAnswers ==
    {[kind |-> "record", res |-> r] : r \in ChainResponses}
        \cup {[kind |-> "TransportError", res |-> EmptyRes]}

ChainProps == {"revid", "page", "prev_revision", "rvtoken"}

NextChain ==
    \/ \E o \in Objs, p \in ChainProps :
         \E ans \in AnswersFor(objs[o], PropAttr(p), ChainAnswers) : Get(o, p, ans)
    \/ \E res \in ChainResponses \cup {None} :
         \E ans \in IF NeedsQuery(res) THEN ChainAnswers ELSE {NoAnswer} :
           LoadAttributes("self", res, ans)
    \/ \E ans \in AnswersFor(objs["self"], "_prev_revision", ChainAnswers) :
         TakePrev("self", "other", ans)

SpecChain == Init /\ [][NextChain]_vars

\* ------------------------------------------------ callers sharing an object
\*
\* Two callers read a field of the one Revision self at the same time.  Each
\* runs the accessor and, from it, __load, one line at a step; the other
\* may run between any two lines.  There is no lock in the code.

\* The lines of __load after the query, in order, and the accessor's second
\* look at the attribute.
LoadLines == <<"l65", "l66", "l67", "l68", "l69", "l70", "l71", "l75", "l79", "recheck">>

LineAfter(pc) == LoadLines[(CHOOSE i \in 1 .. Len(LoadLines) : LoadLines[i] = pc) + 1]

\* One line of __load on the __dict__ d, res being the response r: the
\* __dict__ afterwards and the exception the line raised, if any.
LoadLine(pc, d, r) ==
    LET e == Val(r, "revisions")[1]
    IN CASE pc = "l65" -> IF Has(r, "pageid") THEN LoadResult(StorePage(d, r), NoExc, TRUE)
                          ELSE LoadResult(d, Exc("KeyError", "pageid"), TRUE)
         [] pc = "l66" -> IF ~Has(r, "revisions") THEN LoadResult(d, Exc("KeyError", "revisions"), TRUE)
                          ELSE IF Len(Val(r, "revisions")) = 0
                          THEN LoadResult(d, Exc("IndexError", "revisions"), TRUE)
                          ELSE LoadResult(d, NoExc, TRUE)
         [] pc = "l67" -> IF Has(e, "comment") THEN LoadResult(StoreSummary(d, e), NoExc, TRUE)
                          ELSE LoadResult(d, Exc("KeyError", "comment"), TRUE)
         [] pc = "l68" -> IF Has(e, "timestamp") THEN LoadResult(StoreTimestamp(d, e), NoExc, TRUE)
                          ELSE LoadResult(d, Exc("KeyError", "timestamp"), TRUE)
         [] pc = "l69" -> IF Has(e, "user") THEN LoadResult(StoreUser(d, e), NoExc, TRUE)
                          ELSE LoadResult(d, Exc("KeyError", "user"), TRUE)
         [] pc = "l70" -> LoadResult(StoreIsMinor(d, e), NoExc, TRUE)
         [] pc = "l71" -> LoadResult(StoreRvtoken(d, e), NoExc, TRUE)
         [] pc = "l75" -> IF Has(e, "parentid") THEN LoadResult(StorePrevRevision(d, e), NoExc, TRUE)
                          ELSE LoadResult(d, Exc("KeyError", "parentid"), TRUE)
         [] pc = "l79" -> LoadResult(StoreContent(d, e), NoExc, TRUE)

\* The caller t starts reading property p: the accessor returns the cached
\* attribute, or goes on to load_attributes().
Access(t, p) ==
    /\ threads[t].pc = "idle"
    /\ threads' = [threads EXCEPT ![t] =
           IF Has(objs["self"], PropAttr(p))
           THEN [pc |-> "done", attr |-> PropAttr(p), res |-> None,
                 out |-> Return(Val(objs["self"], PropAttr(p)))]
           ELSE [pc |-> "l64", attr |-> PropAttr(p), res |-> None, out |-> Idle.out]]
    /\ UNCHANGED <<objs, queries, calls, edits, ret, auto>>

\* A caller that waits while another one is inside __load.
QueryGuarded(t, ans) ==
    /\ threads[t].pc = "l64"
    /\ \A u \in Threads \ {t} : threads[u].pc \in {"idle", "l64", "done"}
    /\ queries["self"] + 1 <= MaxQueries
    /\ queries' = [queries EXCEPT !["self"] = @ + 1]
    /\ threads' = [threads EXCEPT ![t] =
           IF ans.kind = "record" THEN [@ EXCEPT !.pc = "l65", !.res = ans.res]
           ELSE [@ EXCEPT !.pc = "done", !.out = Raise(ans.kind, "iterator")]]
    /\ UNCHANGED <<objs, calls, edits, ret, auto>>

\* Line 64 in the caller t: res is None, so the query is sent and the
\* transport's answer becomes res.
Query(t, ans) ==
    /\ threads[t].pc = "l64"
    /\ queries["self"] + 1 <= MaxQueries
    /\ queries' = [queries EXCEPT !["self"] = @ + 1]
    /\ threads' = [threads EXCEPT ![t] =
           IF ans.kind = "record" THEN [@ EXCEPT !.pc = "l65", !.res = ans.res]
           ELSE [@ EXCEPT !.pc = "done", !.out = Raise(ans.kind, "iterator")]]
    /\ UNCHANGED <<objs, calls, edits, ret, auto>>

\* The caller t runs its next line of __load.
Line(t) ==
    /\ threads[t].pc \in {LoadLines[i] : i \in 1 .. Len(LoadLines) - 1}
    /\ \E l \in {LoadLine(threads[t].pc, objs["self"], threads[t].res)} :
         /\ objs' = [objs EXCEPT !["self"] = l.d]
         /\ threads' = [threads EXCEPT ![t] =
                IF l.exc.name = "" THEN [@ EXCEPT !.pc = LineAfter(threads[t].pc)]
                ELSE [@ EXCEPT !.pc = "done", !.out = Raise(l.exc.name, l.exc.arg[1])]]
    /\ UNCHANGED <<queries, calls, edits, ret, auto>>

\* Back in the accessor of the caller t: the attribute is looked up again.
Recheck(t) ==
    /\ threads[t].pc = "recheck"
    /\ threads' = [threads EXCEPT ![t] =
           [@ EXCEPT !.pc = "done",
                     !.out = IF Has(objs["self"], threads[t].attr)
                             THEN Return(Val(objs["self"], threads[t].attr))
                             ELSE Raise("NonexistentRevisionError", Val(objs["self"], "_revid"))]]
    /\ UNCHANGED <<objs, queries, calls, edits, ret, auto>>

\* Two answers that differ in the minor flag and in parentid.
ConcA == ResOf({"badrevids"}, 4)

ConcB == ResOf({"badrevids", "minor"}, 0)

ConcAnswers ==
    {[kind |-> "record", res |-> r] : r \in {ConcA, ConcB}}
        \cup {[kind |-> "TransportError", res |-> EmptyRes]}

ConcProps == {"revid", "page", "prev_revision"}

NextConc ==
    \/ \E t \in Threads, p \in ConcProps : Access(t, p)
    \/ \E t \in Threads, ans \in ConcAnswers : Query(t, ans)
    \/ \E t \in Threads : Line(t)
    \/ \E t \in Threads : Recheck(t)

SpecConc == Init /\ [][NextConc]_vars

\* ----------------------------------------------------------------- claims

\* The attributes every completed load sets.
Mandatory ==
    {"_page", "_summary", "_timestamp", "_user", "_is_minor", "_prev_revision", "_is_deleted"}

\* _is_deleted is the last attribute __load sets: it is cached exactly when
\* some load of the object has run to its end.
Loaded(d) == Has(d, "_is_deleted")

\* The properties a completed load has cached on d: the identity, the
\* mandatory ones, and content and rvtoken when they are there.
CachedProps(d) == {p \in Props : Has(d, PropAttr(p))}

\* C1: in every reachable state the mandatory cached fields page, summary,
\* timestamp, user, isMinor, previousRevision and isDeleted of a Revision
\* are all set or all unset.
C1_LoadAtomicity ==
    \A o \in Objs :
        \/ \A k \in Mandatory : Has(objs[o], k)
        \/ \A k \in Mandatory : ~Has(objs[o], k)

\* C2: once a load of a Revision has run to its end, reading any field that
\* load populated (revid, the mandatory fields, and content or rvtoken when
\* cached) returns the cached value and sends no query.
C2_IdempotentCaching ==
    [][\A o \in Objs, p \in Props :
          (/\ ret'.op = "get" /\ ret'.o = o /\ ret'.arg = <<p>>
           /\ Loaded(objs[o])
           /\ p \in CachedProps(objs[o]) \cup {q \in Props : PropAttr(q) \in Mandatory})
          => /\ queries' = queries
             /\ objs' = objs
             /\ ret'.out.kind = "return"
             /\ ret'.out.val = objs[o][PropAttr(p)]]_vars

\* C2's case: after one implicit load, summary is read from the cache and
\* the object's query count is still 1.
C2_Witness ==
    /\ ret.op = "get" /\ ret.o = "self" /\ ret.arg = <<"summary">>
    /\ ret.nq = 0 /\ ret.out.kind = "return"
    /\ Loaded(objs["self"])
    /\ queries["self"] = 1

\* C3: an object that has only been read through its accessors, with no
\* load ending in an exception, has sent at most one query.
C3_AtMostOneAutomaticLoad == \A o \in Objs : auto[o] => queries[o] <= 1

\* C4: an accessor whose query is answered with no matching revision fails
\* with NonexistentRevisionError naming the revision id.
C4_UniformNonexistenceError ==
    (ret.op = "get" /\ ret.match = "nomatch")
        => /\ ret.out.kind = "raise"
           /\ ret.out.exc = "NonexistentRevisionError"
           /\ ret.out.val = objs[ret.o]["_revid"]

\* C5: after every load that ran to its end, the first and every reload,
\* isDeleted is true exactly when no content is cached.
C5_DeletedMatchesContent ==
    ret.load = "ok"
        => Val(objs[ret.o], "_is_deleted") = ~Has(objs[ret.o], "_content")

\* C6: rollback on a loaded Revision with no rollback token fails with
\* PermissionsError and makes no mutating call.
C6_RollbackPermissionGate ==
    [][(/\ ret'.op = "rollback"
        /\ Loaded(objs[ret'.o])
        /\ ~Has(objs[ret'.o], "_rvtoken"))
       => /\ ret'.out.kind = "raise"
          /\ ret'.out.exc = "PermissionsError"
          /\ calls' = calls]_vars

\* C7: rollback on a loaded Revision with no cached rollback token sends
\* nothing to the transport: no mutating call and no load query.
C7_RollbackNoNetwork ==
    [][(/\ ret'.op = "rollback"
        /\ Loaded(objs[ret'.o])
        /\ ~Has(objs[ret'.o], "_rvtoken"))
       => /\ calls' = calls
          /\ queries' = queries]_vars

\* C8: with a rollback token cached, rollback makes exactly one mutating
\* call and hands back what it did; the params are the page's title, the
\* author's name, the cached token, action "rollback", summary exactly when
\* it is not None (the empty string included), and markbot = 1 exactly when
\* bot is true.
C8_RollbackRequestShape ==
    [][(ret'.op = "rollback" /\ Has(objs[ret'.o], "_rvtoken"))
       => /\ calls' = calls + 1
          /\ ret'.call # Absent
          /\ ret'.out = ret'.call[1].result
          /\ LET p == ret'.call[1].params
                 d == objs[ret'.o]
             IN /\ p["title"] = Some(PageTitle(Val(d, "_page")))
                /\ p["user"] = Some(UserName(Val(d, "_user")))
                /\ p["token"] = d["_rvtoken"]
                /\ p["action"] = Some("rollback")
                /\ p["summary"] = ret'.arg[1]
                /\ p["markbot"] = IF ret'.arg[2] THEN Some(1) ELSE Absent]_vars

\* C8's case: a rollback with an empty summary and bot set, on an object
\* loaded from a supplied response, has made the one call and no query.
C8_Witness ==
    /\ ret.op = "rollback" /\ ret.arg = <<Some(""), TRUE>>
    /\ ret.call # Absent
    /\ calls = 1
    /\ queries["self"] = 0
    /\ ret.out = Return("Success")

\* Same client handle and same revision id.
SameIdentity(a, b) ==
    /\ a["_api"] = b["_api"]
    /\ a["_revid"] = b["_revid"]

\* C9: a == b is true exactly when the two Revisions have the same client
\* handle and the same revision id, whatever their load states; comparing
\* sends no query and changes no cached field.
C9_EqualityIsIdentity ==
    [][ret'.op = "eq"
       => /\ ret'.out.kind = "return"
          /\ ret'.out.val[1] = SameIdentity(objs[ret'.o], objs[ret'.arg[1]])
          /\ objs' = objs
          /\ queries' = queries]_vars

\* C9's case: a loaded Revision compared equal to one of the same identity
\* whose load failed part-way.
C9_Witness ==
    /\ ret.op = "eq" /\ ret.o = "self" /\ ret.arg = <<"other">>
    /\ ret.out.kind = "return" /\ ret.out.val[1] = TRUE
    /\ Loaded(objs["self"])
    /\ Has(objs["other"], "_page") /\ ~Loaded(objs["other"])

\* C10: load_attributes(res) sends no query when the caller supplies a
\* response and exactly one when it supplies none.
C10_QueryCountOfLoad ==
    ret.op = "load" => ret.nq = IF ret.arg[1] = "res" THEN 0 ELSE 1

\* What a load of the supplied response res leaves on a new Revision of
\* d's identity: the cache that reflects res and nothing else.
FreshLoad(d, res) ==
    load_attributes(Revision(Val(d, "_api"), Val(d, "_revid")), res, NoAnswer).d

\* C11: after load_attributes(R) with a supplied response R has run to its
\* end on an already loaded Revision, the cache is what R alone gives: no
\* rollback token when R has none, no content when R has no text.
C11_ForcedReloadRefreshes ==
    [][\A o \in Objs, res \in Responses :
          (/\ Loaded(objs[o])
           /\ Truthy(res)
           /\ ret'.op = "load" /\ ret'.load = "ok"
           /\ LoadAttributes(o, res, NoAnswer))
          => objs'[o] = FreshLoad(objs[o], res)]_vars

\* No loaded field is cached: the object holds its identity only.
Unloaded(d) == \A k \in Attrs \ {"_api", "_revid"} : ~Has(d, k)

\* C12: when the transport fails during the load an accessor runs, the
\* caller gets the transport's error and the load has cached nothing (an
\* unloaded object stays unloaded); the failure is not remembered: the next
\* read of any loaded field of the still unloaded object sends a new query.
C12_FailedLoadRetried ==
    [][/\ (ret'.op = "get" /\ ret'.match = "error")
          => /\ ret'.out.kind = "raise"
             /\ ret'.out.exc = "TransportError"
             /\ objs' = objs
       /\ (/\ ret.op = "get" /\ ret.match = "error"
           /\ Unloaded(objs[ret.o])
           /\ ret'.op = "get" /\ ret'.o = ret.o /\ ret'.arg # <<"revid">>)
          => ret'.nq = 1]_vars

\* C12's case: a read of page on an unloaded object whose query failed in
\* the transport, after an earlier query of the object had failed too: the
\* object is still unloaded and has sent two queries.
C12_Witness ==
    /\ ret.op = "get" /\ ret.o = "self" /\ ret.arg = <<"page">>
    /\ ret.match = "error" /\ ret.out.exc = "TransportError"
    /\ Unloaded(objs["self"])
    /\ queries["self"] = 2

\* The parentid of a response that describes a revision.
ParentId(res) == Val(Val(res, "revisions")[1], "parentid")

\* C13: a load of a response whose parentid is p # 0, supplied by the caller
\* or fetched by the first read of page, caches as previous revision the
\* unloaded Revision(api, p), and None when parentid is 0; on a loaded object
\* prev_revision is read from the cache, None included, with no query and no
\* load; the object the caller obtains has sent no query; and an object's
\* query count grows only in a call made on that object.
C13_PrevRevisionChain ==
    [][/\ \A o \in Objs, res \in ChainResponses :
            (\/ ret'.op = "load" /\ LoadAttributes(o, res, NoAnswer)
             \/ /\ ret'.op = "get" /\ ret'.arg = <<"page">> /\ ~Has(objs[o], "_page")
                /\ Get(o, "page", [kind |-> "record", res |-> res]))
            => /\ objs'[o]["_prev_revision"] =
                     IF ParentId(res) # 0
                     THEN Some(Revision(Val(objs[o], "_api"), ParentId(res)))
                     ELSE Some(None)
               /\ ParentId(res) # 0 => Unloaded(Val(objs'[o], "_prev_revision"))
       /\ (/\ ret'.op \in {"get", "prev"}
           /\ ret'.op = "get" => ret'.arg = <<"prev_revision">>
           /\ Loaded(objs[ret'.o]))
          => /\ ret'.nq = 0 /\ ret'.load = ""
             /\ ret'.out.kind = "return"
             /\ ret'.out.val = objs[ret'.o]["_prev_revision"]
             /\ objs'[ret'.o] = objs[ret'.o]
             /\ queries' = IF ret'.op = "prev" /\ ret'.out.val[1] # None
                           THEN [queries EXCEPT ![ret'.arg[1]] = 0] ELSE queries
       /\ (ret'.op = "prev" /\ ret'.out.kind = "return" /\ ret'.out.val[1] # None)
          => /\ objs'[ret'.arg[1]] = ret'.out.val[1]
             /\ queries'[ret'.arg[1]] = 0
       /\ \A o \in Objs :
            queries'[o] > queries[o] => (ret'.o = o /\ ret'.op \in {"get", "load", "prev"})]_vars

\* C13's case: self was loaded from a supplied response with parentid 4 and
\* has sent no query; other, obtained from self.prev_revision, is
\* Revision(api, 4) and has just been loaded by its own first read of page,
\* with the one query sent for it.
C13_Witness ==
    /\ ret.op = "get" /\ ret.o = "other" /\ ret.arg = <<"page">> /\ ret.nq = 1
    /\ Loaded(objs["self"]) /\ queries["self"] = 0
    /\ objs["self"]["_prev_revision"] = Some(Revision("api1", 4))
    /\ objs["other"]["_revid"] = Some(4) /\ Loaded(objs["other"])
    /\ queries["other"] = 1

\* C14: no step changes a Revision's client handle or its revision id:
\* accessors, implicit loads, load_attributes with a response that
\* describes another revision, failed loads, restore, rollback and
\* comparisons all leave _api and _revid as __init__ set them.
C14_IdentityImmutable ==
    [][\A o \in Objs :
          /\ objs'[o]["_api"] = objs[o]["_api"]
          /\ objs'[o]["_revid"] = objs[o]["_revid"]]_vars

\* C14's case: load_attributes has run to its end on Revision(api1, 5) with
\* a supplied response whose entry describes revision 9, and the object is
\* still revision 5 of api1.
C14_Witness ==
    /\ ret.op = "load" /\ ret.o = "self" /\ ret.arg = <<"res">> /\ ret.load = "ok"
    /\ Loaded(objs["self"])
    /\ EntryVal("revid", 4) # 5
    /\ objs["self"]["_api"] = Some("api1")
    /\ objs["self"]["_revid"] = Some(5)

\* C15: on a Revision whose load found no text (is_deleted cached as true,
\* no content cached), reading content fails with NonexistentRevisionError
\* and leaves page, summary, timestamp, user, isMinor, previousRevision and
\* isDeleted as that load decoded them.
C15_DeletedDetection ==
    [][\A o \in Objs :
          (/\ ret'.op = "get" /\ ret'.o = o /\ ret'.arg = <<"content">>
           /\ Loaded(objs[o])
           /\ Val(objs[o], "_is_deleted")
           /\ ~Has(objs[o], "_content"))
          => /\ ret'.out.kind = "raise"
             /\ ret'.out.exc = "NonexistentRevisionError"
             /\ \A k \in Mandatory : objs'[o][k] = objs[o][k]]_vars

C18_NeNegatesEq ==
    [][/\ ret'.op = "ne"
          => \E c \in {__eq__(objs[ret'.o], objs[ret'.arg[1]], NoAnswer, NoAnswer)} :
               /\ c.out.kind = "return" /\ ret'.out.kind = "return"
               /\ ret'.out.val[1] = ~c.out.val[1]
       /\ ret'.op = "eq"
          => \E c \in {__ne__(objs[ret'.o], objs[ret'.arg[1]], NoAnswer, NoAnswer)} :
               /\ c.out.kind = "return" /\ ret'.out.kind = "return"
               /\ ret'.out.val[1] = ~c.out.val[1]]_vars

\* C18's case: a loaded Revision compared with != against an object that is
\* no Revision: the answer is True.
C18_Witness ==
    /\ ret.op = "ne" /\ ret.o = "self" /\ ret.arg = <<"other">>
    /\ objs["other"] = PlainObject
    /\ Loaded(objs["self"])
    /\ ret.out = Return(TRUE)

\* C17: nothing holds a caller back: one that is idle can start its
\* accessor, and one that found the attribute uncached can send its own
\* query, wherever the other caller stands, inside __load included.
C17_UnguardedFirstAccess ==
    \A t \in Threads :
        /\ threads[t].pc = "idle" => ENABLED (\E p \in ConcProps : Access(t, p))
        /\ threads[t].pc = "l64" => ENABLED (\E ans \in ConcAnswers : Query(t, ans))

\* C17's case: both callers made the first access to the unloaded object,
\* each sent a query, the answers differed, and with both loads over the
\* cache holds the minor flag of one answer and the previous revision of
\* the other: the bundle of neither.
C17_Witness ==
    /\ \A t \in Threads : threads[t].pc = "done" /\ threads[t].out.kind = "return"
    /\ {threads[t].res : t \in Threads} = {ConcA, ConcB}
    /\ queries["self"] = 2
    /\ Loaded(objs["self"])
    /\ objs["self"]["_is_minor"] = FreshLoad(objs["self"], ConcA)["_is_minor"]
    /\ objs["self"]["_prev_revision"] = FreshLoad(objs["self"], ConcB)["_prev_revision"]
    /\ objs["self"] # FreshLoad(objs["self"], ConcA)
    /\ objs["self"] # FreshLoad(objs["self"], ConcB)

====
